---- MODULE Spec2Model ----
(***************************************************************************)
(* Model of the bounded-concurrency execution engine of common-infra:      *)
(*   - batch.BatchExecutor (src/batch/batch.go): NewBatchExecutor with its *)
(*     functional options, and Execute with its errgroup, rate limiter,    *)
(*     dispatch loop and per-item goroutines;                              *)
(*   - stream.Worker (src/stream/stream.go): NewStreamWorker and Start.    *)
(* The errgroup (golang.org/x/sync), the token bucket (golang.org/x/time)  *)
(* and Go's select, channels and contexts are modelled by their documented *)
(* behaviour at the places where the source calls them.                    *)
(***************************************************************************)
EXTENDS Integers, Sequences, FiniteSets

(* ------------------------------ bounds --------------------------------- *)
MaxItems == 3      \* longest item slice handed to Execute
MaxOpts == 2       \* most options handed to NewBatchExecutor
MaxArg == 2        \* largest integer argument of an option
MaxWorkers == 2    \* largest concurrency handed to NewStreamWorker (smallest is -1)
MaxSend == 3       \* most items the producer sends on the channel
MaxCap == 1        \* largest buffer capacity of the channel
MaxOtherItems == 1 \* longest item slice handed to the second, concurrent Execute

(* ------------------------- program constants --------------------------- *)
DefaultConcurrency == 10   \* batch.go:29
DefaultBurst == 1          \* batch.go:31
Inf == 0                   \* stands for rate.Inf (batch.go:30): "no limit"

Positions == 0 .. (MaxItems - 1)
WorkerIds == 0 .. (MaxWorkers - 1)
Items == 1 .. MaxSend
\* integer arguments tried for an option: two rejected ones, the least and the largest accepted
IntArgs == {-1, 0, 1, MaxArg}

VARIABLES
    config,      \* BatchExecutor.config (BatchConfig)
    nopts,       \* options applied so far by NewBatchExecutor
    opts,        \* the options NewBatchExecutor was given, as applied so far
    pc,          \* position of the goroutine that builds the executor and calls Execute
    nItems,      \* len(items)
    index,       \* loop variable i of the dispatch loop
    ctxErr,      \* ctx.Err() != nil for the context the caller passed
    ctxAtCall,   \* value of ctxErr at the moment Execute was called
    grpCancel,   \* the errgroup has cancelled grpCtx itself
    gErr,        \* errgroup's err: -1 for nil, else the position whose handler error it holds
    sem,         \* tokens held in errgroup's semaphore
    limiterOn,   \* limiter != nil
    tokens,      \* tokens in the limiter's bucket
    ticks,       \* tokens the bucket has gained since the limiter was built
    st,          \* per position: state of the goroutine g.Go spawned for it
    outcome,     \* per position: how the handler invocation ended
    calls,       \* per position: number of handler invocations
    errs,        \* the errs slice, as the positions in append order
    ret          \* what Execute returned

bvars == <<config, nopts, opts, pc, nItems, index, ctxErr, ctxAtCall, grpCancel, gErr,
           sem, limiterOn, tokens, ticks, st, outcome, calls, errs, ret>>

VARIABLES
    arg,         \* the concurrency argument NewStreamWorker was called with
    concurrency, \* Worker.concurrency (0 until NewStreamWorker has run)
    spc,         \* position of the goroutine that builds the Worker and calls Start
    spawnI,      \* loop variable i of Start's spawn loop
    wg,          \* the WaitGroup's counter
    wst,         \* per worker: "unspawned", "select", "handling" or "exited"
    cur,         \* per worker: the item its handler is running on (0 for none)
    ch,          \* the items buffered in the channel, oldest first
    chCap,       \* the channel's buffer capacity
    closed,      \* the producer has closed the channel
    sent,        \* items the producer has sent or handed over so far
    sctxErr,     \* ctx.Err() != nil for the context given to Start
    sctxAtCall,  \* value of sctxErr at the moment Start was called
    recv,        \* per item: number of times a worker received it
    started,     \* per item: number of handler invocations
    sout         \* per item: how its handler invocation ended

svars == <<arg, concurrency, spc, spawnI, wg, wst, cur, ch, chCap, closed, sent,
           sctxErr, sctxAtCall, recv, started, sout>>

\* a second Execute call on the same BatchExecutor, running at the same time:
\* the locals of its own activation of Execute
VARIABLES
    opc,         \* where that call is: "idle", "check", "limit", "go", "gwait", "returned"
    oItems,      \* len(items) of that call
    oindex,      \* its loop variable i
    olimiterOn,  \* its limiter != nil
    otokens,     \* tokens in the bucket of its limiter
    ocancel,     \* its derived context grpCtx is cancelled
    ogErr,       \* the error its errgroup recorded (-1 for nil)
    osem,        \* slots of its errgroup that are taken
    ost,         \* per position: "pending", "spawned" or "done"
    oerrs,       \* its errs slice
    oret         \* what it returned

ovars == <<opc, oItems, oindex, olimiterOn, otokens, ocancel, ogErr, osem, ost,
           oerrs, oret>>

vars == <<bvars, svars, ovars>>

NoRet == [kind |-> "none", index |-> -1, count |-> 0]
RetNil == [kind |-> "nil", index |-> -1, count |-> 0]
\* the handler's own error, as returned for position i
RetHandler(i) == [kind |-> "handler", index |-> i, count |-> 0]
\* variant of RetLimiter: the message counts positions from 1
RetLimiterOneBased(i) == [kind |-> "limiter", index |-> i + 1, count |-> 0]

\* fmt.Errorf("rate limiter error at index %d: %w", index, err)
RetLimiter(i) == [kind |-> "limiter", index |-> i, count |-> 0]
\* fmt.Errorf("batch finished with %d error(s), first: %w", len(errs), errs[0])
RetAggregate(n, first) == [kind |-> "aggregate", index |-> first, count |-> n]

(* ------------------------ NewBatchExecutor ----------------------------- *)
DefaultConfig ==
    [Concurrency |-> DefaultConcurrency, RateLimit |-> Inf,
     Burst |-> DefaultBurst, IgnoreError |-> FALSE]

\* variant of WithConcurrency: a non-positive n is coerced to 1
WithConcurrencyCoerce(n, c) == [c EXCEPT !.Concurrency = IF n > 0 THEN n ELSE 1]

WithConcurrency(n, c) == IF n > 0 THEN [c EXCEPT !.Concurrency = n] ELSE c
WithRateLimit(rps, c) == IF rps > 0 THEN [c EXCEPT !.RateLimit = rps] ELSE c
\* variant of WithBurst: n is stored without the n > 0 test
WithBurstUnchecked(n, c) == [c EXCEPT !.Burst = n]

WithBurst(n, c) == IF n > 0 THEN [c EXCEPT !.Burst = n] ELSE c
WithIgnoreError(ignore, c) == [c EXCEPT !.IgnoreError = ignore]

\* an element of opts: the option function and its int or bool argument
Option(name, n, flag) == [opt |-> name, n |-> n, flag |-> flag]

\* one iteration of "for _, opt := range opts { opt(&cfg) }"
ApplyOption ==
    /\ pc = "new"
    /\ nopts < MaxOpts
    /\ nopts' = nopts + 1
    /\ \/ \E n \in IntArgs :
             /\ config' = WithConcurrency(n, config)
             /\ opts' = Append(opts, Option("WithConcurrency", n, FALSE))
       \/ \E rps \in IntArgs :
             /\ config' = WithRateLimit(rps, config)
             /\ opts' = Append(opts, Option("WithRateLimit", rps, FALSE))
       \/ \E n \in IntArgs :
             /\ config' = WithBurst(n, config)
             /\ opts' = Append(opts, Option("WithBurst", n, FALSE))
       \/ \E ignore \in BOOLEAN :
             /\ config' = WithIgnoreError(ignore, config)
             /\ opts' = Append(opts, Option("WithIgnoreError", 0, ignore))
    /\ UNCHANGED <<pc, nItems, index, ctxErr, ctxAtCall, grpCancel, gErr, sem,
                   limiterOn, tokens, st, outcome, calls, errs, ret>>
    /\ UNCHANGED ticks
    /\ UNCHANGED <<svars, ovars>>

(* ------------------------------ Execute -------------------------------- *)
\* grpCtx.Err() != nil: the derived context is cancelled with its parent or by the group
GrpCtxErr == ctxErr \/ grpCancel

\* variant of EmptyInput: the length test is missing
EmptyInputNever(n) == FALSE

\* "if len(items) == 0 { return nil }" (batch.go:79)
EmptyInput(n) == n = 0

\* Execute is called: the empty check, errgroup.WithContext, SetLimit, the limiter
ExecuteCall ==
    /\ pc = "new"
    /\ \E n \in 0 .. MaxItems, cancelled \in BOOLEAN :
          /\ nItems' = n
          /\ ctxErr' = cancelled
          /\ ctxAtCall' = cancelled
          /\ IF EmptyInput(n)
                THEN /\ pc' = "returned"
                     /\ ret' = RetNil
                     /\ UNCHANGED <<limiterOn, tokens>>
                ELSE /\ pc' = "check"
                     /\ ret' = NoRet
                     /\ limiterOn' = (config.RateLimit # Inf)
                     /\ tokens' = IF config.RateLimit # Inf THEN config.Burst ELSE 0
    /\ nopts' = 0   \* the option loop is over, its counter is out of scope
    /\ opts' = <<>>
    /\ ticks' = 0
    /\ UNCHANGED <<config, index, grpCancel, gErr, sem, st, outcome, calls, errs>>
    /\ UNCHANGED <<svars, ovars>>

\* variant of BreakOnCancel: the context check at the loop head is missing
BreakOnCancelNever(cancelled) == FALSE

\* "if grpCtx.Err() != nil { break }" (batch.go:104): does the loop stop here
BreakOnCancel(cancelled) == cancelled

\* loop head for position index: range exhausted, context check, or on to step 4
LoopCheck ==
    /\ pc = "check"
    /\ IF index >= nItems
          THEN pc' = "gwait"
          ELSE IF BreakOnCancel(GrpCtxErr)
                  THEN pc' = "gwait"
                  ELSE IF limiterOn THEN pc' = "limit" ELSE pc' = "go"
    /\ UNCHANGED <<config, nopts, opts, nItems, index, ctxErr, ctxAtCall, grpCancel, gErr,
                   sem, limiterOn, tokens, st, outcome, calls, errs, ret>>
    /\ UNCHANGED ticks
    /\ UNCHANGED <<svars, ovars>>

\* variant of TakeToken: admission leaves the bucket as it was
TakeTokenFree(t) == t

\* limiter.Wait admits the caller by taking one token out of the bucket
TakeToken(t) == t - 1

\* limiter.Wait(grpCtx) on entry: a cancelled context fails at once, a token in
\* the bucket is taken at once, otherwise a reservation is made and a timer armed
LimiterWaitEnter ==
    /\ pc = "limit"
    /\ IF GrpCtxErr
          THEN /\ pc' = "returned"
               /\ ret' = RetLimiter(index)
               /\ UNCHANGED tokens
          ELSE IF tokens > 0
                  THEN /\ pc' = "go"
                       /\ tokens' = TakeToken(tokens)
                       /\ UNCHANGED ret
                  ELSE /\ pc' = "timer"
                       /\ UNCHANGED <<tokens, ret>>
    /\ UNCHANGED <<config, nopts, opts, nItems, index, ctxErr, ctxAtCall, grpCancel, gErr,
                   sem, limiterOn, st, outcome, calls, errs>>
    /\ UNCHANGED ticks
    /\ UNCHANGED <<svars, ovars>>

\* limiter.Wait's select, timer case: the reserved token has arrived
LimiterTimerFires ==
    /\ pc = "timer"
    /\ tokens > 0
    /\ tokens' = TakeToken(tokens)
    /\ pc' = "go"
    /\ UNCHANGED <<config, nopts, opts, nItems, index, ctxErr, ctxAtCall, grpCancel, gErr,
                   sem, limiterOn, st, outcome, calls, errs, ret>>
    /\ UNCHANGED ticks
    /\ UNCHANGED <<svars, ovars>>

\* limiter.Wait's select, ctx.Done() case, and the early return of batch.go:111
LimiterWaitCancelled ==
    /\ pc = "timer"
    /\ GrpCtxErr
    /\ pc' = "returned"
    /\ ret' = RetLimiter(index)
    /\ UNCHANGED <<config, nopts, opts, nItems, index, ctxErr, ctxAtCall, grpCancel, gErr,
                   sem, limiterOn, tokens, st, outcome, calls, errs>>
    /\ UNCHANGED ticks
    /\ UNCHANGED <<svars, ovars>>

\* time passes: the bucket gains a token, up to its burst
Tick ==
    /\ limiterOn
    /\ pc \in {"check", "limit", "timer", "go"}
    /\ tokens < config.Burst
    /\ tokens' = tokens + 1
    /\ ticks' = ticks + 1
    /\ UNCHANGED <<config, nopts, opts, pc, nItems, index, ctxErr, ctxAtCall, grpCancel,
                   gErr, sem, limiterOn, st, outcome, calls, errs, ret>>
    /\ UNCHANGED <<svars, ovars>>

\* variant of SlotFree: the group has no limit (SetLimit was not called)
SlotFreeNoLimit(held, limit) == TRUE

\* g.Go blocks on "g.sem <- token{}" until fewer than limit tokens are held
SlotFree(held, limit) == held < limit

\* variant of NextPosition: the loop steps over every other position
NextPositionSkip(i) == i + 2

\* "for i, item := range items" (batch.go:98): the position after i
NextPosition(i) == i + 1

\* g.Go(func): take a slot, spawn the goroutine for position index, next iteration
GroupGo ==
    /\ pc = "go"
    /\ SlotFree(sem, config.Concurrency)
    /\ sem' = sem + 1
    /\ st' = [st EXCEPT ![index] = "spawned"]
    /\ index' = NextPosition(index)
    /\ pc' = "check"
    /\ UNCHANGED <<config, nopts, opts, nItems, ctxErr, ctxAtCall, grpCancel, gErr,
                   limiterOn, tokens, outcome, calls, errs, ret>>
    /\ UNCHANGED ticks
    /\ UNCHANGED <<svars, ovars>>

\* the spawned goroutine gets to run and calls handler(grpCtx, v)
HandlerStart(i) ==
    /\ st[i] = "spawned"
    /\ st' = [st EXCEPT ![i] = "running"]
    /\ calls' = [calls EXCEPT ![i] = @ + 1]
    /\ UNCHANGED <<config, nopts, opts, pc, nItems, index, ctxErr, ctxAtCall, grpCancel,
                   gErr, sem, limiterOn, tokens, outcome, errs, ret>>
    /\ UNCHANGED ticks
    /\ UNCHANGED <<svars, ovars>>

Outcomes == {"ok", "fail", "panic"}

\* variant of HandlerErr: a recovered panic is reported like a returned failure
HandlerErrOrPanic(o) == o \in {"fail", "panic"}

\* the err the closure sees after "err := handler(grpCtx, v)": a panic unwinds
\* past the assignment into the deferred recover, so only a returned failure counts
HandlerErr(o) == o = "fail"

\* variant of ClosureReturnsErr: the error goes to the errgroup in IgnoreError mode too
ClosureReturnsErrAlways(o, ignore) == o = "fail"

\* what the closure hands to the errgroup: the handler's error in fail-fast mode,
\* nil in IgnoreError mode, and nil (the zero result) after a recovered panic
ClosureReturnsErr(o, ignore) == HandlerErr(o) /\ ~ignore

\* the closure appends to errs in IgnoreError mode
ClosureRecordsErr(o, ignore) == HandlerErr(o) /\ ignore

\* variant of SemRelease: done() does not give the slot back
SemReleaseLeak(held) == held

\* errgroup's done(): "<-g.sem" gives the slot back
SemRelease(held) == held - 1

\* variant of GoroutineExit: the closure is scheduled to run once more
GoroutineExitRerun(s) == "spawned"

\* the closure of batch.go:115-138 returns after its one call of handler, and the
\* goroutine is over
GoroutineExit(s) == "done"

\* the handler ends with outcome o; the closure's epilogue and errgroup's
\* bookkeeping (errOnce, cancel, done) follow
HandlerEnd(i) ==
    /\ st[i] = "running"
    /\ \E o \in Outcomes :
          /\ outcome' = [outcome EXCEPT ![i] = o]
          /\ errs' = IF ClosureRecordsErr(o, config.IgnoreError)
                        THEN Append(errs, i) ELSE errs
          /\ IF ClosureReturnsErr(o, config.IgnoreError) /\ gErr = -1
                THEN gErr' = i /\ grpCancel' = TRUE
                ELSE UNCHANGED <<gErr, grpCancel>>
    /\ st' = [st EXCEPT ![i] = GoroutineExit(st[i])]
    /\ sem' = SemRelease(sem)
    /\ UNCHANGED <<config, nopts, opts, pc, nItems, index, ctxErr, ctxAtCall, limiterOn,
                   tokens, calls, ret>>
    /\ UNCHANGED ticks
    /\ UNCHANGED <<svars, ovars>>

\* wg.Wait() inside g.Wait(): every goroutine the group spawned has called done()
GroupIdle == \A i \in Positions : st[i] \in {"pending", "done"}

\* variant of FinalResult: the failures collected in errs are not reported
FinalResultNoAggregate(groupErr, ignore, recorded) ==
    IF groupErr # -1 THEN RetHandler(groupErr) ELSE RetNil

\* the value Execute returns after g.Wait() (batch.go:142-150)
FinalResult(groupErr, ignore, recorded) ==
    IF groupErr # -1 THEN RetHandler(groupErr)
    ELSE IF ignore /\ Len(recorded) > 0
            THEN RetAggregate(Len(recorded), recorded[1])
            ELSE RetNil

\* g.Wait() returns (cancelling grpCtx) and Execute returns its result
GroupWait ==
    /\ pc = "gwait"
    /\ GroupIdle
    /\ grpCancel' = TRUE
    /\ ret' = FinalResult(gErr, config.IgnoreError, errs)
    /\ pc' = "returned"
    /\ UNCHANGED <<config, nopts, opts, nItems, index, ctxErr, ctxAtCall, gErr, sem,
                   limiterOn, tokens, st, outcome, calls, errs>>
    /\ UNCHANGED ticks
    /\ UNCHANGED <<svars, ovars>>

\* the caller (or a deadline) cancels ctx while Execute is running
CancelCtx ==
    /\ pc \in {"check", "limit", "timer", "go", "gwait"}
    /\ ~ctxErr
    /\ ctxErr' = TRUE
    /\ UNCHANGED <<config, nopts, opts, pc, nItems, index, ctxAtCall, grpCancel, gErr, sem,
                   limiterOn, tokens, st, outcome, calls, errs, ret>>
    /\ UNCHANGED ticks
    /\ UNCHANGED <<svars, ovars>>

BatchInit ==
    /\ config = DefaultConfig
    /\ nopts = 0
    /\ opts = <<>>
    /\ pc = "new"
    /\ nItems = 0
    /\ index = 0
    /\ ctxErr = FALSE
    /\ ctxAtCall = FALSE
    /\ grpCancel = FALSE
    /\ gErr = -1
    /\ sem = 0
    /\ limiterOn = FALSE
    /\ tokens = 0
    /\ ticks = 0
    /\ st = [i \in Positions |-> "pending"]
    /\ outcome = [i \in Positions |-> "none"]
    /\ calls = [i \in Positions |-> 0]
    /\ errs = <<>>
    /\ ret = NoRet

BatchNext ==
    \/ ApplyOption
    \/ ExecuteCall
    \/ LoopCheck
    \/ LimiterWaitEnter
    \/ LimiterTimerFires
    \/ LimiterWaitCancelled
    \/ Tick
    \/ GroupGo
    \/ \E i \in Positions : HandlerStart(i)
    \/ \E i \in Positions : HandlerEnd(i)
    \/ GroupWait
    \/ CancelCtx

(* ------------- a second, concurrent call of Execute -------------------- *)
OtherPositions == 0 .. (MaxOtherItems - 1)

\* variant of LimiterOwner: the limiter is kept on the executor, every call
\* waits on the one the first call built
LimiterOwnerShared(call) == "this"

\* the activation of Execute whose limiter a call waits on: limiter is a local
\* variable of Execute (batch.go:87), so the call's own
LimiterOwner(call) == call

\* the frame of a step of the second call that touches the first call's bucket
\* at most
FirstCallButTokens ==
    UNCHANGED <<config, nopts, opts, pc, nItems, index, ctxErr, ctxAtCall, grpCancel,
                gErr, sem, limiterOn, ticks, st, outcome, calls, errs, ret>>

\* the second call enters Execute: the empty check, its own errgroup, derived
\* context, limiter and errs; it reads b.config
OtherCall ==
    /\ opc = "idle"
    /\ pc # "new"
    /\ \E n \in 0 .. MaxOtherItems :
          /\ oItems' = n
          /\ IF EmptyInput(n)
                THEN /\ opc' = "returned"
                     /\ oret' = RetNil
                     /\ UNCHANGED <<olimiterOn, otokens>>
                ELSE /\ opc' = "check"
                     /\ oret' = NoRet
                     /\ olimiterOn' = (config.RateLimit # Inf)
                     /\ otokens' = IF config.RateLimit # Inf THEN config.Burst ELSE 0
    /\ UNCHANGED <<oindex, ocancel, ogErr, osem, ost, oerrs>>
    /\ UNCHANGED <<bvars, svars>>

\* its loop head
OtherLoopCheck ==
    /\ opc = "check"
    /\ IF oindex >= oItems
          THEN opc' = "gwait"
          ELSE IF BreakOnCancel(ocancel)
                  THEN opc' = "gwait"
                  ELSE IF olimiterOn THEN opc' = "limit" ELSE opc' = "go"
    /\ UNCHANGED <<oItems, oindex, olimiterOn, otokens, ocancel, ogErr, osem, ost,
                   oerrs, oret>>
    /\ UNCHANGED <<bvars, svars>>

\* its limiter.Wait(grpCtx): fails on its cancelled context, otherwise returns
\* once it has taken a token from the bucket of the limiter it waits on
OtherLimiterWait ==
    /\ opc = "limit"
    /\ IF ocancel
          THEN /\ opc' = "returned"
               /\ oret' = RetLimiter(oindex)
               /\ UNCHANGED <<otokens, tokens>>
          ELSE /\ opc' = "go"
               /\ UNCHANGED oret
               /\ IF LimiterOwner("other") = "other"
                     THEN /\ otokens > 0
                          /\ otokens' = TakeToken(otokens)
                          /\ UNCHANGED tokens
                     ELSE /\ tokens > 0
                          /\ tokens' = TakeToken(tokens)
                          /\ UNCHANGED otokens
    /\ UNCHANGED <<oItems, oindex, olimiterOn, ocancel, ogErr, osem, ost, oerrs>>
    /\ FirstCallButTokens
    /\ UNCHANGED svars

\* time passes for its limiter
OtherTick ==
    /\ olimiterOn
    /\ opc \in {"check", "limit", "go"}
    /\ otokens < config.Burst
    /\ otokens' = otokens + 1
    /\ UNCHANGED <<opc, oItems, oindex, olimiterOn, ocancel, ogErr, osem, ost, oerrs,
                   oret>>
    /\ UNCHANGED <<bvars, svars>>

\* its g.Go
OtherGroupGo ==
    /\ opc = "go"
    /\ SlotFree(osem, config.Concurrency)
    /\ osem' = osem + 1
    /\ ost' = [ost EXCEPT ![oindex] = "spawned"]
    /\ oindex' = NextPosition(oindex)
    /\ opc' = "check"
    /\ UNCHANGED <<oItems, olimiterOn, otokens, ocancel, ogErr, oerrs, oret>>
    /\ UNCHANGED <<bvars, svars>>

\* one of its goroutines runs the handler to its end, and the closure's epilogue
\* and its errgroup's bookkeeping follow
OtherHandlerEnd(i) ==
    /\ ost[i] = "spawned"
    /\ ost' = [ost EXCEPT ![i] = "done"]
    /\ osem' = SemRelease(osem)
    /\ \E o \in Outcomes :
          /\ oerrs' = IF ClosureRecordsErr(o, config.IgnoreError)
                         THEN Append(oerrs, i) ELSE oerrs
          /\ IF ClosureReturnsErr(o, config.IgnoreError) /\ ogErr = -1
                THEN ogErr' = i /\ ocancel' = TRUE
                ELSE UNCHANGED <<ogErr, ocancel>>
    /\ UNCHANGED <<opc, oItems, oindex, olimiterOn, otokens, oret>>
    /\ UNCHANGED <<bvars, svars>>

\* its g.Wait() returns and it returns its result
OtherGroupWait ==
    /\ opc = "gwait"
    /\ \A i \in OtherPositions : ost[i] \in {"pending", "done"}
    /\ ocancel' = TRUE
    /\ opc' = "returned"
    /\ oret' = FinalResult(ogErr, config.IgnoreError, oerrs)
    /\ UNCHANGED <<oItems, oindex, olimiterOn, otokens, ogErr, osem, ost, oerrs>>
    /\ UNCHANGED <<bvars, svars>>

OtherInit ==
    /\ opc = "idle"
    /\ oItems = 0
    /\ oindex = 0
    /\ olimiterOn = FALSE
    /\ otokens = 0
    /\ ocancel = FALSE
    /\ ogErr = -1
    /\ osem = 0
    /\ ost = [i \in OtherPositions |-> "pending"]
    /\ oerrs = <<>>
    /\ oret = NoRet

OtherNext ==
    \/ OtherCall
    \/ OtherLoopCheck
    \/ OtherLimiterWait
    \/ OtherTick
    \/ OtherGroupGo
    \/ \E i \in OtherPositions : OtherHandlerEnd(i)
    \/ OtherGroupWait

(* ------------------------- NewStreamWorker, Start ---------------------- *)
\* "if concurrency <= 0 { concurrency = 1 }"
Coerce(n) == IF n <= 0 THEN 1 ELSE n

\* NewStreamWorker(n, handler), on a channel the caller made with some capacity
NewStreamWorker ==
    /\ spc = "new"
    /\ \E n \in (-1) .. MaxWorkers, c \in 0 .. MaxCap :
          /\ arg' = n
          /\ concurrency' = Coerce(n)
          /\ chCap' = c
    /\ spc' = "built"
    /\ UNCHANGED <<spawnI, wg, wst, cur, ch, closed, sent, sctxErr, sctxAtCall,
                   recv, started, sout>>
    /\ UNCHANGED <<bvars, ovars>>

\* the producer can hand over its next item
SenderReady == ~closed /\ sent < MaxSend

\* producer: "ch <- item" into a free buffer slot
ProducerSend ==
    /\ spc # "new"
    /\ SenderReady
    /\ Len(ch) < chCap
    /\ ch' = Append(ch, sent + 1)
    /\ sent' = sent + 1
    /\ UNCHANGED <<arg, concurrency, spc, spawnI, wg, wst, cur, chCap, closed, sctxErr,
                   sctxAtCall, recv, started, sout>>
    /\ UNCHANGED <<bvars, ovars>>

\* producer: close(ch)
ProducerClose ==
    /\ spc # "new"
    /\ ~closed
    /\ closed' = TRUE
    /\ UNCHANGED <<arg, concurrency, spc, spawnI, wg, wst, cur, ch, chCap, sent, sctxErr,
                   sctxAtCall, recv, started, sout>>
    /\ UNCHANGED <<bvars, ovars>>

\* Start(ctx, ch) is called, with ctx live or already cancelled
StartCall ==
    /\ spc = "built"
    /\ \E cancelled \in BOOLEAN :
          /\ sctxErr' = cancelled
          /\ sctxAtCall' = cancelled
    /\ spc' = "spawn"
    /\ UNCHANGED <<arg, concurrency, spawnI, wg, wst, cur, ch, chCap, closed, sent,
                   recv, started, sout>>
    /\ UNCHANGED <<bvars, ovars>>

\* variant of SpawnMore: the spawn loop runs once too often
SpawnMoreInclusive(i, n) == i <= n

\* the spawn loop's condition "i < s.concurrency"
SpawnMore(i, n) == i < n

\* one iteration of the spawn loop: wg.Add(1); go func() {...}()
SpawnWorker ==
    /\ spc = "spawn"
    /\ IF SpawnMore(spawnI, concurrency)
          THEN /\ wg' = wg + 1
               /\ wst' = [wst EXCEPT ![spawnI] = "select"]
               /\ spawnI' = spawnI + 1
               /\ UNCHANGED spc
          ELSE /\ spc' = "wait"
               /\ UNCHANGED <<wg, wst, spawnI>>
    /\ UNCHANGED <<arg, concurrency, cur, ch, chCap, closed, sent, sctxErr, sctxAtCall,
                   recv, started, sout>>
    /\ UNCHANGED <<bvars, ovars>>

\* variant of CtxDoneReady: the select has no ctx.Done() case
CtxDoneNeverReady(cancelled) == FALSE

\* "case <-ctx.Done()" is ready once ctx is cancelled
CtxDoneReady(cancelled) == cancelled

\* select, "case <-ctx.Done(): return", then the deferred wg.Done()
WorkerCancelled(w) ==
    /\ wst[w] = "select"
    /\ CtxDoneReady(sctxErr)
    /\ wst' = [wst EXCEPT ![w] = "exited"]
    /\ wg' = wg - 1
    /\ UNCHANGED <<arg, concurrency, spc, spawnI, cur, ch, chCap, closed, sent, sctxErr,
                   sctxAtCall, recv, started, sout>>
    /\ UNCHANGED <<bvars, ovars>>

\* the per-item counter f with one more for item x; the items a producer sends
\* beyond the first MaxSend carry the id 0 and are not counted one by one
Tally(f, x) == IF x \in DOMAIN f THEN [f EXCEPT ![x] = @ + 1] ELSE f

\* variant of InvokeAfterReceive: the context is tested once more after the
\* receive and a received item is dropped when it is cancelled
InvokeUnlessCancelled(cancelled) == ~cancelled

\* between "case val, ok := <-ch" and s.handler(ctx, val) (stream.go:47-63) only
\* ok is tested: a received item always reaches the handler
InvokeAfterReceive(cancelled) == TRUE

\* select, "case val, ok := <-ch" with ok: a buffered item, or one handed over by
\* a ready sender; Go picks among the ready cases at random, so this case can be
\* taken while ctx.Done() is ready too. The handler is then called on val.
WorkerReceive(w) ==
    /\ wst[w] = "select"
    /\ \/ /\ Len(ch) > 0
          /\ cur' = [cur EXCEPT ![w] = Head(ch)]
          /\ recv' = Tally(recv, Head(ch))
          /\ started' = IF InvokeAfterReceive(sctxErr)
                            THEN Tally(started, Head(ch)) ELSE started
          /\ ch' = Tail(ch)
          /\ UNCHANGED sent
       \/ /\ Len(ch) = 0
          /\ SenderReady
          /\ cur' = [cur EXCEPT ![w] = sent + 1]
          /\ recv' = Tally(recv, sent + 1)
          /\ started' = IF InvokeAfterReceive(sctxErr)
                            THEN Tally(started, sent + 1) ELSE started
          /\ sent' = sent + 1
          /\ UNCHANGED ch
    /\ wst' = [wst EXCEPT ![w] = "handling"]
    /\ UNCHANGED <<arg, concurrency, spc, spawnI, wg, chCap, closed, sctxErr, sctxAtCall,
                   sout>>
    /\ UNCHANGED <<bvars, ovars>>

\* select, "case val, ok := <-ch" with !ok: closed and drained, return
WorkerChannelClosed(w) ==
    /\ wst[w] = "select"
    /\ closed
    /\ Len(ch) = 0
    /\ wst' = [wst EXCEPT ![w] = "exited"]
    /\ wg' = wg - 1
    /\ UNCHANGED <<arg, concurrency, spc, spawnI, cur, ch, chCap, closed, sent, sctxErr,
                   sctxAtCall, recv, started, sout>>
    /\ UNCHANGED <<bvars, ovars>>

\* variant of AfterHandler: the worker has no for loop and returns after one item
AfterHandlerOnce(o) == "exited"

\* variant of AfterHandler: no recover around the handler, a panic ends the worker
AfterHandlerNoRecover(o) == IF o = "panic" THEN "exited" ELSE "select"

\* where the worker goes once the inner func has returned: the recover inside it
\* stops a panic there, so every outcome leads back to the top of the for loop
AfterHandler(o) == "select"

\* the handler ends with some outcome (its error is dropped, its panic recovered)
WorkerHandlerEnd(w) ==
    /\ wst[w] = "handling"
    /\ \E o \in Outcomes :
          /\ sout' = IF cur[w] \in Items THEN [sout EXCEPT ![cur[w]] = o] ELSE sout
          /\ wst' = [wst EXCEPT ![w] = AfterHandler(o)]
          /\ wg' = IF AfterHandler(o) = "exited" THEN wg - 1 ELSE wg
    /\ cur' = [cur EXCEPT ![w] = 0]
    /\ UNCHANGED <<arg, concurrency, spc, spawnI, ch, chCap, closed, sent, sctxErr,
                   sctxAtCall, recv, started>>
    /\ UNCHANGED <<bvars, ovars>>

\* variant of WaitGroupZero: Start does not wait for its workers
WaitGroupZeroNoWait(n) == TRUE

\* wg.Wait() unblocks when the counter is zero
WaitGroupZero(n) == n = 0

\* wg.Wait() returns and so does Start
StartReturn ==
    /\ spc = "wait"
    /\ WaitGroupZero(wg)
    /\ spc' = "returned"
    /\ UNCHANGED <<arg, concurrency, spawnI, wg, wst, cur, ch, chCap, closed, sent,
                   sctxErr, sctxAtCall, recv, started, sout>>
    /\ UNCHANGED <<bvars, ovars>>

\* the caller (or a deadline) cancels the context given to Start
CancelStreamCtx ==
    /\ spc \in {"spawn", "wait"}
    /\ ~sctxErr
    /\ sctxErr' = TRUE
    /\ UNCHANGED <<arg, concurrency, spc, spawnI, wg, wst, cur, ch, chCap, closed, sent,
                   sctxAtCall, recv, started, sout>>
    /\ UNCHANGED <<bvars, ovars>>

\* a producer that never closes the channel and never runs out of items: past
\* the first MaxSend it keeps the buffer supplied
ProducerSendMore ==
    /\ spc # "new"
    /\ ~closed
    /\ sent = MaxSend
    /\ Len(ch) < chCap
    /\ ch' = Append(ch, 0)
    /\ UNCHANGED <<arg, concurrency, spc, spawnI, wg, wst, cur, chCap, closed, sent,
                   sctxErr, sctxAtCall, recv, started, sout>>
    /\ UNCHANGED <<bvars, ovars>>

\* select, "case val, ok := <-ch" with ok, the item handed over by that producer
WorkerReceiveMore(w) ==
    /\ wst[w] = "select"
    /\ Len(ch) = 0
    /\ ~closed
    /\ sent = MaxSend
    /\ wst' = [wst EXCEPT ![w] = "handling"]
    /\ cur' = [cur EXCEPT ![w] = 0]
    /\ UNCHANGED <<arg, concurrency, spc, spawnI, wg, ch, chCap, closed, sent,
                   sctxErr, sctxAtCall, recv, started, sout>>
    /\ UNCHANGED <<bvars, ovars>>

StreamInit ==
    /\ arg = 0
    /\ concurrency = 0
    /\ spc = "new"
    /\ spawnI = 0
    /\ wg = 0
    /\ wst = [w \in WorkerIds |-> "unspawned"]
    /\ cur = [w \in WorkerIds |-> 0]
    /\ ch = <<>>
    /\ chCap = 0
    /\ closed = FALSE
    /\ sent = 0
    /\ sctxErr = FALSE
    /\ sctxAtCall = FALSE
    /\ recv = [x \in Items |-> 0]
    /\ started = [x \in Items |-> 0]
    /\ sout = [x \in Items |-> "none"]

StreamNext ==
    \/ NewStreamWorker
    \/ ProducerSend
    \/ ProducerClose
    \/ StartCall
    \/ SpawnWorker
    \/ \E w \in WorkerIds : WorkerCancelled(w)
    \/ \E w \in WorkerIds : WorkerReceive(w)
    \/ \E w \in WorkerIds : WorkerChannelClosed(w)
    \/ \E w \in WorkerIds : WorkerHandlerEnd(w)
    \/ StartReturn
    \/ CancelStreamCtx

(* --------------------------- specifications ---------------------------- *)
Init == BatchInit /\ StreamInit /\ OtherInit

\* a BatchExecutor is built and Execute is called once on it
Spec == Init /\ [][BatchNext]_vars

\* a Worker is built and Start is called once on it, with a producer on the channel
StreamSpec == Init /\ [][StreamNext]_vars

\* construction and entry of both components: NewBatchExecutor's option loop and
\* the call of Execute, NewStreamWorker and Start's spawn loop
BuildNext ==
    \/ ApplyOption
    \/ ExecuteCall
    \/ NewStreamWorker
    \/ StartCall
    \/ SpawnWorker

BuildSpec == Init /\ [][BuildNext]_vars

\* two calls of Execute on one BatchExecutor, interleaved step by step
TwoCallNext == BatchNext \/ OtherNext

TwoCallSpec == Init /\ [][TwoCallNext]_vars

\* the same with a producer that keeps the channel supplied for ever
EndlessNext ==
    \/ StreamNext
    \/ ProducerSendMore
    \/ \E w \in WorkerIds : WorkerReceiveMore(w)

\* the steps of the goroutine that calls Start
Starter == SpawnWorker \/ StartReturn

\* the steps of worker w
WorkerStep(w) ==
    \/ WorkerCancelled(w)
    \/ WorkerReceive(w)
    \/ WorkerReceiveMore(w)
    \/ WorkerChannelClosed(w)
    \/ WorkerHandlerEnd(w)

\* the scheduler runs every runnable goroutine and every handler invocation
\* terminates; select picks uniformly at random among its ready cases, so a case
\* that is ready again and again is taken in the end; the producer and the
\* caller's cancellation are under no obligation
FairStreamSpec ==
    /\ Init
    /\ [][EndlessNext]_vars
    /\ WF_vars(Starter)
    /\ \A w \in WorkerIds : WF_vars(WorkerStep(w)) /\ SF_vars(WorkerCancelled(w))

\* the steps of the goroutine that calls Execute
Dispatcher ==
    \/ ExecuteCall
    \/ LoopCheck
    \/ LimiterWaitEnter
    \/ LimiterTimerFires
    \/ LimiterWaitCancelled
    \/ GroupGo
    \/ GroupWait

\* the steps of the goroutine g.Go spawned for position i
Goroutine(i) == HandlerStart(i) \/ HandlerEnd(i)

\* the scheduler runs every runnable goroutine, time passes, and every handler
\* invocation terminates; the caller's cancellation is under no obligation
FairSpec ==
    /\ Spec
    /\ WF_vars(Dispatcher)
    /\ WF_vars(Tick)
    /\ \A i \in Positions : WF_vars(Goroutine(i))

(* ------------------------------- claims -------------------------------- *)
Dispatched == {i \in Positions : st[i] # "pending"}
Running == {i \in Positions : st[i] = "running"}
Failed == {i \in Positions : outcome[i] = "fail"}
Panicked == {i \in Positions : outcome[i] = "panic"}
Input == {i \in Positions : i < nItems}
Range(seq) == {seq[k] : k \in 1 .. Len(seq)}

\* C1 (as claimed): whenever Execute has returned, by whichever return path, no
\* goroutine it spawned is still running or still waiting to run.
C1_NoInvocationLeftOnReturn ==
    pc = "returned" => \A i \in Positions : st[i] \in {"pending", "done"}

\* C2: once called, Execute eventually returns, for every item count and every
\* configuration, given that every handler invocation terminates.
C2_ExecuteReturns == (pc # "new") ~> (pc = "returned")

\* Execute has returned success after dispatching more items than there are
\* slots, through a rate limiter whose bucket holds a single token
C2_Witness ==
    /\ pc = "returned"
    /\ ret = RetNil
    /\ limiterOn
    /\ config.Burst = 1
    /\ nItems > config.Concurrency
    /\ \A i \in Input : st[i] = "done"

\* C3: at no time are more than config.Concurrency handler invocations started
\* and not yet finished.
C3_ConcurrencyBound == Cardinality(Running) <= config.Concurrency

\* every slot is taken by a running handler and the dispatcher is blocked in g.Go
C3_Witness ==
    /\ pc = "go"
    /\ Cardinality(Running) = config.Concurrency
    /\ index < nItems

\* C4 (as claimed): in fail-fast mode, when Execute returns after a handler has
\* reported a failure to the group, it returns the first failure reported.
C4_FailFastReturnsFirstFailure ==
    [][(pc # "returned" /\ pc' = "returned" /\ ~config.IgnoreError /\ gErr # -1)
          => ret' = RetHandler(gErr)]_vars

\* C5: in IgnoreError mode, with the caller's context never cancelled and no rate
\* limiter failure, Execute returns only after the handler ran exactly once on
\* every item, and it returns nil when no handler failed and otherwise the
\* aggregate whose count is the number of items whose handler failed.
C5_CollectAndContinue ==
    (pc = "returned" /\ nItems > 0 /\ config.IgnoreError /\ ~ctxErr
        /\ ret.kind # "limiter")
    => /\ \A i \in Input : calls[i] = 1 /\ st[i] = "done"
       /\ IF Failed = {}
             THEN ret = RetNil
             ELSE ret.kind = "aggregate" /\ ret.count = Cardinality(Failed)

\* three items, one slot, the first two handlers failed and the third still ran
C5_Witness ==
    /\ pc = "returned"
    /\ config.IgnoreError
    /\ config.Concurrency = 1
    /\ ~ctxErr
    /\ nItems = 3
    /\ Failed = {0, 1}
    /\ outcome[2] = "ok"
    /\ ret.kind = "aggregate"
    /\ ret.count = 2

\* C6: a handler that panics counts as "no failure": its position is never what
\* the errgroup holds as its error nor in errs, the group cancels the derived
\* context during the run only for a returned failure, and a run in which no
\* handler returned a failure and the caller did not cancel dispatches every item,
\* completes it and returns nil.
C6_PanicIsNoFailure ==
    /\ gErr \notin Panicked
    /\ Range(errs) \cap Panicked = {}
    /\ (grpCancel /\ pc # "returned") => gErr \in Failed
    /\ (pc = "returned" /\ nItems > 0 /\ ~ctxErr /\ Failed = {})
          => /\ ret = RetNil
             /\ \A i \in Input : calls[i] = 1 /\ st[i] = "done"

\* a fail-fast run whose second handler panicked: all three items ran, nil returned
C6_Witness ==
    /\ pc = "returned"
    /\ ~config.IgnoreError
    /\ nItems = 3
    /\ ~ctxErr
    /\ outcome[1] = "panic"
    /\ outcome[0] = "ok"
    /\ outcome[2] = "ok"
    /\ ret = RetNil

\* C8: when the context is already cancelled at the call of Execute on a
\* non-empty slice, no handler is ever invoked and Execute returns nil.
C8_PreCancelled ==
    (ctxAtCall /\ nItems > 0)
    => /\ \A i \in Positions : calls[i] = 0
       /\ pc = "returned" => ret = RetNil

\* Execute has returned from such a call, with a rate limiter configured
C8_Witness ==
    /\ pc = "returned"
    /\ ctxAtCall
    /\ nItems > 0
    /\ limiterOn

Live == {w \in WorkerIds : wst[w] \in {"select", "handling"}}
Spawned == {w \in WorkerIds : w < concurrency}
Drained == closed /\ Len(ch) = 0

\* C7: a worker exits only when the context is cancelled or the channel is closed
\* and drained, whatever its handler invocations did; until then all
\* Worker.concurrency workers are alive; and when Start returns without the
\* context cancelled, every item sent has been handled, whatever the outcomes.
C7_WorkersSurviveHandler ==
    /\ \A w \in WorkerIds : wst[w] = "exited" => (sctxErr \/ Drained)
    /\ (spc = "wait" /\ ~sctxErr /\ ~Drained) => Cardinality(Live) = concurrency
    /\ (spc = "returned" /\ ~sctxErr)
          => \A x \in Items : x <= sent => (started[x] = 1 /\ sout[x] # "none")

\* one worker: its first handler panicked, its second failed, its third ran
C7_Witness ==
    /\ concurrency = 1
    /\ ~sctxErr
    /\ sout[1] = "panic"
    /\ sout[2] = "fail"
    /\ sout[3] = "ok"

\* C9 (as claimed): when the context is already cancelled at the call of Start,
\* Start returns with no item received from the channel.
C9_PreCancelledReceivesNothing ==
    (spc = "returned" /\ sctxAtCall) => \A x \in Items : recv[x] = 0

\* C10: when Start has returned, every worker has exited, no handler is running,
\* every received item's handler has finished, and the context is cancelled or
\* the channel is closed and empty.
C10_StartReturnsQuiesced ==
    spc = "returned"
    => /\ \A w \in Spawned : wst[w] = "exited"
       /\ \A w \in WorkerIds : wst[w] # "handling"
       /\ \A x \in Items : recv[x] > 0 => sout[x] # "none"
       /\ sctxErr \/ Drained

\* Start has returned from two workers that drained a closed channel
C10_Witness ==
    /\ spc = "returned"
    /\ concurrency = 2
    /\ ~sctxErr
    /\ sent = MaxSend
    /\ \A x \in Items : sout[x] # "none"

\* C11: once the context given to Start is cancelled, Start eventually returns,
\* also when the channel is never closed and the producer never stops supplying it.
C11_CancelledStartReturns == sctxErr ~> (spc = "returned")

\* Start has returned after a cancellation with the channel still open and
\* holding an item of the producer that never stops
C11_Witness ==
    /\ spc = "returned"
    /\ sctxErr
    /\ ~sctxAtCall
    /\ ~closed
    /\ sent = MaxSend
    /\ Len(ch) > 0
    /\ Head(ch) = 0

Sent == {x \in Items : x <= sent}
Handling == {w \in WorkerIds : wst[w] = "handling"}
InProgress == {x \in Items : started[x] > 0 /\ sout[x] = "none"}

\* C12: no item is received twice, and when Start returns without the context
\* ever cancelled the channel is closed and each of the items the producer sent
\* was received once and handled once, to the end, for any number of workers.
C12_EachItemHandledOnce ==
    /\ \A x \in Items : recv[x] <= 1 /\ started[x] <= 1
    /\ (spc = "returned" /\ ~sctxErr)
          => /\ closed
             /\ \A x \in Sent : recv[x] = 1 /\ started[x] = 1 /\ sout[x] # "none"
             /\ \A x \in Items \ Sent : recv[x] = 0

\* a single worker handled every item of a producer that sent MaxSend and closed
C12_Witness ==
    /\ spc = "returned"
    /\ ~sctxErr
    /\ concurrency = 1
    /\ sent = MaxSend
    /\ \A x \in Items : started[x] = 1 /\ sout[x] = "ok"

\* C13: Worker.concurrency is the constructor's argument, or 1 when that is <= 0;
\* Start spawns that many workers, never more, and never more than that many
\* handler invocations are in progress.
C13_ExactlyNWorkers ==
    /\ spc # "new" => concurrency = (IF arg <= 0 THEN 1 ELSE arg)
    /\ spawnI <= concurrency
    /\ Cardinality({w \in WorkerIds : wst[w] # "unspawned"}) = spawnI
    /\ spc \in {"wait", "returned"} => spawnI = concurrency
    /\ Cardinality(Handling) <= concurrency
    /\ Cardinality(InProgress) <= concurrency

\* two workers, both in a handler invocation, a third item waiting in the buffer
C13_Witness ==
    /\ spc = "wait"
    /\ concurrency = 2
    /\ Cardinality(InProgress) = 2
    /\ Len(ch) > 0

\* C14: a limiter wait that fails on the cancelled derived context makes Execute
\* return at once the limiter failure tagged with the position it was waiting
\* for, in either error mode and whatever errs holds, and neither that position
\* nor a later one is ever dispatched.
C14_LimiterFailureTagged ==
    [](ret.kind = "limiter"
          => /\ pc = "returned"
             /\ limiterOn
             /\ GrpCtxErr
             /\ ret.index = index
             /\ \A j \in Positions : j >= index => st[j] = "pending" /\ calls[j] = 0)
    /\ [][(pc \in {"limit", "timer"} /\ pc' = "returned")
              => (GrpCtxErr /\ ret'.kind = "limiter" /\ ret'.index = index)]_vars
    /\ [][(pc = "limit" /\ GrpCtxErr /\ pc' # pc) => pc' = "returned"]_vars

\* collect mode: a failure is already in errs, yet the limiter failure for the
\* last position is what Execute returned
C14_Witness ==
    /\ pc = "returned"
    /\ config.IgnoreError
    /\ Len(errs) > 0
    /\ ret.kind = "limiter"
    /\ ret.index = 2

\* the options given to NewBatchExecutor that took effect on Concurrency
AcceptedConcurrency ==
    {k \in 1 .. Len(opts) : opts[k].opt = "WithConcurrency" /\ opts[k].n > 0}

\* C15 as stated: a non-positive concurrency is coerced to exactly 1 by
\* NewStreamWorker and by NewBatchExecutor(WithConcurrency(n)) alike.
C15_NonPositiveCoercedToOne ==
    /\ (spc # "new" /\ arg <= 0) => concurrency = 1
    /\ (pc = "new" /\ Len(opts) = 1 /\ opts[1].opt = "WithConcurrency"
            /\ opts[1].n <= 0) => config.Concurrency = 1

\* C15: NewStreamWorker coerces a non-positive concurrency to 1 and Start then
\* runs exactly one worker; NewBatchExecutor ignores a non-positive
\* WithConcurrency, so Concurrency keeps the value it had (DefaultConcurrency
\* when no WithConcurrency was accepted), is never below 1, and Execute runs
\* with the configuration as built.
C15_NonPositiveConcurrency ==
    [](/\ (spc # "new" /\ arg <= 0) => concurrency = 1
       /\ (spc = "wait" /\ arg <= 0) => spawnI = 1
       /\ (pc = "new" /\ AcceptedConcurrency = {})
             => config.Concurrency = DefaultConcurrency
       /\ config.Concurrency >= 1)
    /\ [][(Len(opts') = Len(opts) + 1 /\ opts'[Len(opts')].opt = "WithConcurrency"
             /\ opts'[Len(opts')].n <= 0) => config' = config]_vars
    /\ [][(pc = "new" /\ pc' # "new") => config' = config]_vars

\* both constructors were given a non-positive concurrency: one worker runs,
\* the batch limit is still the default
C15_Witness ==
    /\ spc = "wait"
    /\ arg = 0
    /\ spawnI = 1
    /\ pc = "new"
    /\ opts = <<Option("WithConcurrency", -1, FALSE)>>
    /\ config.Concurrency = DefaultConcurrency

\* the options taking an int argument
IntOptions == {"WithConcurrency", "WithRateLimit", "WithBurst"}

\* some WithRateLimit given to NewBatchExecutor had a positive argument
RateLimitGiven ==
    \E k \in 1 .. Len(opts) : opts[k].opt = "WithRateLimit" /\ opts[k].n > 0

\* C16: whatever options were applied to the default configuration,
\* Concurrency >= 1 and Burst >= 1; applying an int option with a non-positive
\* argument leaves the configuration as it was; RateLimit is Inf unless some
\* WithRateLimit had a positive argument, and Execute constructs a limiter only
\* in that case.
C16_OptionsKeepConfigValid ==
    [](/\ config.Concurrency >= 1
       /\ config.Burst >= 1
       /\ pc = "new" => (config.RateLimit # Inf <=> RateLimitGiven))
    /\ [][(Len(opts') = Len(opts) + 1 /\ opts'[Len(opts')].opt \in IntOptions
             /\ opts'[Len(opts')].n <= 0) => config' = config]_vars
    /\ [][(pc = "new" /\ pc' # "new")
             => /\ config' = config
                /\ limiterOn' => RateLimitGiven
                /\ (~RateLimitGiven) => ~limiterOn']_vars

\* two rejected options in a row left the default configuration untouched
C16_Witness ==
    /\ pc = "new"
    /\ opts = <<Option("WithBurst", 0, FALSE), Option("WithRateLimit", -1, FALSE)>>
    /\ config = DefaultConfig

\* positions the dispatching loop holds a token for or has passed on to g.Go
Admitted == index + (IF pc = "go" THEN 1 ELSE 0)

\* C17: with a limiter, the dispatching loop itself takes exactly one token for
\* each position and only then reaches g.Go for it, so the positions admitted
\* plus the tokens left always equal the burst plus the tokens gained since;
\* the positions dispatched never exceed the tokens granted, and with burst 1
\* dispatching all n items takes at least n - 1 refills.
C17_OneTokenPerItem ==
    [](limiterOn
         => /\ tokens \in 0 .. config.Burst
            /\ Admitted + tokens = config.Burst + ticks
            /\ Cardinality(Dispatched) = index
            /\ Cardinality(Dispatched) <= config.Burst + ticks
            /\ (config.Burst = 1 /\ index = nItems) => ticks >= nItems - 1)
    /\ [][(limiterOn /\ pc # "go" /\ pc' = "go")
             => (pc \in {"limit", "timer"} /\ tokens > 0 /\ tokens' = tokens - 1)]_vars
    /\ [][(limiterOn /\ index' # index)
             => (pc = "go" /\ index' = index + 1 /\ tokens' = tokens
                   /\ st[index] = "pending" /\ st'[index] = "spawned")]_vars

\* burst 1: all MaxItems positions were dispatched, which took MaxItems - 1 refills
C17_Witness ==
    /\ limiterOn
    /\ config.Burst = 1
    /\ nItems = MaxItems
    /\ index = nItems
    /\ pc = "returned"
    /\ ticks = MaxItems - 1

\* C18: Execute on an empty input has returned nil as its first step: no
\* limiter, nothing in the group (no slot taken, no error, derived context not
\* cancelled by it), no position spawned or invoked, whatever the configuration
\* and whether or not ctx was cancelled at the call.
C18_EmptyInputReturnsAtOnce ==
    (pc # "new" /\ nItems = 0)
       => /\ pc = "returned"
          /\ ret = RetNil
          /\ ~limiterOn
          /\ sem = 0 /\ gErr = -1 /\ ~grpCancel
          /\ errs = <<>>
          /\ \A i \in Positions : st[i] = "pending" /\ calls[i] = 0

\* empty input with a finite rate configured, collect mode and a cancelled ctx
C18_Witness ==
    /\ pc = "returned"
    /\ nItems = 0
    /\ ret = RetNil
    /\ ctxAtCall
    /\ config.RateLimit # Inf
    /\ config.IgnoreError

\* C19 as stated: from the moment the derived context is cancelled no position
\* is dispatched and no handler invocation starts.
C19_NothingStartsAfterCancel ==
    [][GrpCtxErr => (index' = index /\ calls' = calls)]_vars

\* C19: the derived context stays cancelled; once it is, the loop head lets no
\* further position through and limiter.Wait on entry fails, so the only
\* position still dispatched is the one that had already passed the check (it
\* is blocked in g.Go or in the limiter's timer), after which the loop ends;
\* goroutines already spawned still start their handler, and a handler that
\* starts belongs to a dispatched position.
C19_CancelStopsLoopHead ==
    /\ [][GrpCtxErr => GrpCtxErr']_vars
    /\ [][(GrpCtxErr /\ pc = "check") => pc' \in {"check", "gwait"}]_vars
    /\ [][(GrpCtxErr /\ pc = "limit") => pc' \in {"limit", "returned"}]_vars
    /\ [][(GrpCtxErr /\ index' # index)
             => (pc = "go" /\ pc' = "check" /\ index' = index + 1)]_vars
    /\ [][(pc \in {"gwait", "returned"}) => index' = index]_vars
    /\ [][(\A i \in Positions : calls'[i] # calls[i] => st[i] = "spawned")]_vars

\* a fail-fast failure cancelled the derived context and the loop stopped with
\* positions left, one of them never dispatched
C19_Witness ==
    /\ pc = "gwait"
    /\ ~ctxErr
    /\ grpCancel
    /\ gErr # -1
    /\ index < nItems
    /\ st[nItems - 1] = "pending"

\* fail-fast, no limiter, no outside cancellation, fewer slots than items, and
\* the handler failed for position f, not the last, and for no other
FailFastOneFailure(f) ==
    /\ ~config.IgnoreError
    /\ ~limiterOn
    /\ ~ctxErr
    /\ config.Concurrency < nItems
    /\ f < nItems - 1
    /\ outcome[f] = "fail"
    /\ \A i \in Positions : (i # f /\ calls[i] > 0) => outcome[i] = "ok"

\* C20 as stated: when such an Execute has returned, some position after the
\* failing one never had its handler invoked.
C20_SuffixSkipped ==
    \A f \in Positions :
       (pc = "returned" /\ FailFastOneFailure(f))
          => \E j \in Positions : j > f /\ j < nItems /\ calls[j] = 0

\* without a limiter: a failure is recorded in the group and the last position
\* has not passed the loop-head check
FailedBeforeLastCheck == ~limiterOn /\ gErr # -1 /\ Admitted < nItems

\* C20: fail-fast without a limiter: if the failure is recorded before the loop
\* has passed its check for the last position, that stays so for good and the
\* positions not yet past the check (the last one among them) are never
\* dispatched nor invoked; a position already past the check is still
\* dispatched, so nothing is skipped when that position is the last one.
C20_SuffixSkippedIfFailureEarly ==
    [](FailedBeforeLastCheck
          => \A j \in Positions :
                (j >= Admitted /\ j < nItems) => st[j] = "pending" /\ calls[j] = 0)
    /\ [][FailedBeforeLastCheck => (FailedBeforeLastCheck' /\ Admitted' = Admitted)]_vars

\* one slot, MaxItems items: position 0 failed before the loop reached the last
\* position, which was never invoked
C20_Witness ==
    /\ pc = "returned"
    /\ FailFastOneFailure(0)
    /\ FailedBeforeLastCheck
    /\ nItems = MaxItems
    /\ calls[nItems - 1] = 0
    /\ ret = RetHandler(0)

\* the positions before i
Prefix(i) == {j \in Positions : j < i}

\* C21: the positions dispatched are always exactly those before index, the
\* loop hands positions to g.Go one by one in input order, and a limiter token
\* is only ever taken for position index, when every earlier position has been
\* dispatched (its token taken before) and no later one has; completion order
\* is not constrained.
C21_DispatchInInputOrder ==
    [](/\ Dispatched = Prefix(index)
       /\ index <= nItems
       /\ pc \in {"limit", "timer", "go"} => index < nItems)
    /\ [][(index' # index)
             => (index' = index + 1 /\ st[index] = "pending"
                   /\ st' = [st EXCEPT ![index] = "spawned"])]_vars
    /\ [][(limiterOn /\ tokens' < tokens)
             => (pc \in {"limit", "timer"} /\ pc' = "go" /\ index' = index
                   /\ Dispatched = Prefix(index))]_vars

\* with a limiter, the token for position 2 is held while position 1 has
\* finished before position 0
C21_Witness ==
    /\ limiterOn
    /\ pc = "go"
    /\ index = 2
    /\ st[0] = "running"
    /\ st[1] = "done"

\* C22: with a second call of Execute running on the same executor, every step
\* that changes the first call's state is a step of Execute as it runs alone
\* (so what it dispatches, records and returns is what it could when alone),
\* likewise for the second call, and no step after construction changes the
\* configuration.
C22_CallsAreIndependent ==
    /\ [][BatchNext]_bvars
    /\ [][OtherNext]_ovars
    /\ [][(pc # "new") => config' = config]_vars

\* the second call has failed fast and returned while the first, with a limiter
\* of its own, is in the middle of its loop with its context not cancelled
C22_Witness ==
    /\ opc = "returned"
    /\ oret = RetHandler(0)
    /\ ocancel
    /\ limiterOn
    /\ pc = "go"
    /\ index = 1
    /\ ~GrpCtxErr
    /\ gErr = -1

\* the steps a position's goroutine can take, in this order and never back
Lifecycle == {<<"pending", "spawned">>, <<"spawned", "running">>, <<"running", "done">>}

\* C23: the handler is invoked at most once for each position, exactly when
\* the position's goroutine got to run, and never for a position outside the
\* input; a position only moves forward through pending, spawned, running and
\* done, so none is dispatched twice or run again, in either error mode and
\* whatever failed, panicked or was cancelled.
C23_AtMostOneInvocation ==
    [](\A i \in Positions :
          /\ calls[i] <= 1
          /\ calls[i] = 1 <=> st[i] \in {"running", "done"}
          /\ outcome[i] # "none" <=> st[i] = "done"
          /\ i >= nItems => st[i] = "pending")
    /\ [][(\A i \in Positions : st'[i] # st[i] => <<st[i], st'[i]>> \in Lifecycle)]_vars
    /\ [][(\A i \in Positions : calls'[i] >= calls[i])]_vars

\* collect mode with a limiter: a failure, a panic and an outside cancellation
\* in one call, every position that ran was invoked once
C23_Witness ==
    /\ pc = "returned"
    /\ config.IgnoreError
    /\ limiterOn
    /\ ctxErr /\ ~ctxAtCall
    /\ outcome[0] = "fail"
    /\ outcome[1] = "panic"
    /\ calls[0] = 1 /\ calls[1] = 1

\* Execute has returned nil from a call on a non-empty input
Succeeded == pc = "returned" /\ nItems > 0 /\ ret = RetNil

\* C24 as stated: whenever Execute returns nil for a non-empty input, the
\* handler has been invoked for every item.
C24_SuccessMeansAllInvoked ==
    Succeeded => \A i \in Input : calls[i] = 1

\* C24: when Execute returns nil for a non-empty input, no handler invocation
\* reported a failure and every goroutine has finished; if the caller's context
\* was never cancelled, the handler has been invoked for every item; items are
\* skipped under a nil result only when the caller's context was cancelled,
\* before or during the run.
C24_SuccessUnlessCancelled ==
    Succeeded
       => /\ Failed = {}
          /\ gErr = -1 /\ errs = <<>>
          /\ \A i \in Input : st[i] \in {"pending", "done"}
          /\ ~ctxErr => \A i \in Input : calls[i] = 1 /\ st[i] = "done"
          /\ (\E i \in Input : calls[i] = 0) => ctxErr

\* the caller cancelled during the run: position 0 was handled, the last one
\* was skipped, and Execute returned nil
C24_Witness ==
    /\ Succeeded
    /\ nItems = MaxItems
    /\ ctxErr /\ ~ctxAtCall
    /\ calls[0] = 1
    /\ calls[nItems - 1] = 0

\* the workers whose handler is running on item x
Holders(x) == {w \in WorkerIds : wst[w] = "handling" /\ cur[w] = x}

\* C25: an item is taken off the channel as often as the handler is started on
\* it, at most once, cancelled context or not; an item the producer sent is
\* either still unread in the channel or was received, and a received item is
\* with exactly one worker's handler or has been handled to the end; so when
\* Start has returned, the only items not handled are unread ones.
C25_ReceivedMeansHandled ==
    /\ \A x \in Items : recv[x] = started[x] /\ recv[x] <= 1
    /\ \A x \in Sent : (recv[x] = 0) <=> (x \in Range(ch))
    /\ \A x \in Items \ Sent : recv[x] = 0 /\ x \notin Range(ch)
    /\ \A x \in Items :
          recv[x] = 1 => IF sout[x] = "none" THEN Cardinality(Holders(x)) = 1
                                            ELSE Holders(x) = {}
    /\ spc = "returned" => \A x \in Sent : sout[x] # "none" \/ x \in Range(ch)

\* Start has returned on a cancellation that came during the run: items 1 and 2
\* were received and handled, item 3 was left unread in the channel
C25_Witness ==
    /\ spc = "returned"
    /\ sctxErr /\ ~sctxAtCall
    /\ sout[1] # "none"
    /\ sout[2] # "none"
    /\ ch = <<3>>
====
